---- MODULE Spec2Model ----
(***************************************************************************)
(* Model of precompiles/utils/src/lib.rs: the helpers that let an EVM      *)
(* precompile meter gas, emit logs, check the call context and dispatch a  *)
(* Substrate call.                                                         *)
(*                                                                         *)
(* The handle (fp_evm::PrecompileHandle) is the state: its remaining gas,  *)
(* the logs handed to it, its context, static flag and input.  Two history *)
(* fields are kept beside it: the costs record_cost has committed and the  *)
(* number of native calls dispatched.  Every public function of the file   *)
(* is one action, applied as a whole.                                      *)
(*                                                                         *)
(* u64 values are four 16-bit limbs, least significant first, so that the  *)
(* checked arithmetic of log_costs meets the real 64-bit limit.            *)
(***************************************************************************)
EXTENDS Integers, Sequences, FiniteSets, TLC

\* ------------------------------------------------------------------ bounds

\* Operations performed on one handle within one precompile call.
MaxOps == 2
\* Longest slice of logs passed to record_log_costs.
MaxBatch == 2
\* Weight units per unit of gas in the runtime's GasWeightMapping.
WeightPerGas == 2

\* ------------------------------------------------------- 64-bit unsigned

Base == 2^16

\* A u64 from a small natural (below 2^31).
U64(n) == <<n % Base, (n \div Base) % Base, 0, 0>>

U64Max == <<Base - 1, Base - 1, Base - 1, Base - 1>>

\* Little-endian limb vectors of equal length: a + b + c, one limb longer.
RECURSIVE AddLimbs(_, _, _)
AddLimbs(a, b, c) ==
    IF a = <<>> THEN <<c>>
    ELSE LET s == Head(a) + Head(b) + c
         IN  <<s % Base>> \o AddLimbs(Tail(a), Tail(b), s \div Base)

\* k * a + c for a small natural k (below 2^15), one limb longer.
RECURSIVE MulLimbs(_, _, _)
MulLimbs(k, a, c) ==
    IF a = <<>> THEN <<c>>
    ELSE LET p == k * Head(a) + c
         IN  <<p % Base>> \o MulLimbs(k, Tail(a), p \div Base)

\* a - b - c for a >= b + c, same length.
RECURSIVE SubLimbs(_, _, _)
SubLimbs(a, b, c) ==
    IF a = <<>> THEN <<>>
    ELSE LET d == Head(a) - Head(b) - c
         IN  IF d < 0 THEN <<d + Base>> \o SubLimbs(Tail(a), Tail(b), 1)
                      ELSE <<d>> \o SubLimbs(Tail(a), Tail(b), 0)

\* a > b, compared from the most significant limb down.
RECURSIVE GtLimbs(_, _)
GtLimbs(a, b) ==
    IF a = <<>> THEN FALSE
    ELSE LET n == Len(a)
         IN  IF a[n] # b[n] THEN a[n] > b[n]
             ELSE GtLimbs(SubSeq(a, 1, n - 1), SubSeq(b, 1, n - 1))

Low4(w) == SubSeq(w, 1, 4)

None == [some |-> FALSE]
Some(v) == [some |-> TRUE, val |-> v]

\* u64::checked_add: None on overflow.
checked_add(a, b) ==
    LET s == AddLimbs(a, b, 0)
    IN  IF s[5] # 0 THEN None ELSE Some(Low4(s))

\* u64::checked_mul by a constant k: None on overflow.
checked_mul(k, a) ==
    LET p == MulLimbs(k, a, 0)
    IN  IF p[5] # 0 THEN None ELSE Some(Low4(p))

\* ---------------------------------------------------------------- results

Ok(v) == [ok |-> TRUE, val |-> v]
Err(f) == [ok |-> FALSE, err |-> f]
Unit == <<>>

\* PrecompileFailure::Error { exit_status: ExitError::OutOfGas }
OutOfGas == [kind |-> "Error", exit_status |-> "OutOfGas"]

\* An ExitError the handle's log may return, converted by `?`.
ErrorOf(exit_error) == [kind |-> "Error", exit_status |-> exit_error]

error(text) == [kind |-> "Error", exit_status |-> <<"Other", text>>]

revert(output) == [kind |-> "Revert", exit_status |-> "Reverted", output |-> output]

succeed(output) == [exit_status |-> "Returned", output |-> output]

\* ---------------------------------------------------------------- log cost

G_LOG == 375
G_LOGDATA == 8
G_LOGTOPIC == 375

\* Variant of log_costs: the final addition wraps around instead of failing.
log_costs_wrapping(topics, data_len) ==
    LET topic_cost == checked_mul(G_LOGTOPIC, topics)
        data_cost == checked_mul(G_LOGDATA, data_len)
    IN  IF ~topic_cost.some THEN Err(OutOfGas)
        ELSE IF ~data_cost.some THEN Err(OutOfGas)
        ELSE LET first == checked_add(U64(G_LOG), topic_cost.val)
             IN  IF ~first.some THEN Err(OutOfGas)
                 ELSE Ok(Low4(AddLimbs(first.val, data_cost.val, 0)))

log_costs(topics, data_len) ==
    LET topic_cost == checked_mul(G_LOGTOPIC, topics)
        data_cost == checked_mul(G_LOGDATA, data_len)
    IN  IF ~topic_cost.some THEN Err(OutOfGas)
        ELSE IF ~data_cost.some THEN Err(OutOfGas)
        ELSE LET first == checked_add(U64(G_LOG), topic_cost.val)
             IN  IF ~first.some THEN Err(OutOfGas)
                 ELSE LET total == checked_add(first.val, data_cost.val)
                      IN  IF ~total.some THEN Err(OutOfGas)
                          ELSE Ok(total.val)

\* ------------------------------------------------------------------ handle

\* PrecompileHandle::record_cost: compare, then subtract; the committed cost is
\* kept in the history field `charged`.
record_cost(h, cost) ==
    IF GtLimbs(cost, h.remaining_gas)
    THEN [h |-> h, res |-> Err("OutOfGas")]
    ELSE [h |-> [h EXCEPT !.remaining_gas = SubLimbs(@, cost, 0),
                          !.charged = Append(@, cost)],
          res |-> Ok(Unit)]

\* PrecompileHandle::log: the host takes the log, or refuses it with an
\* ExitError; which of the two is the host's choice (`accepted`).
handle_log(h, address, topics, data, accepted) ==
    IF accepted
    THEN [h |-> [h EXCEPT !.logs = Append(@, [address |-> address,
                                               topics |-> topics,
                                               data |-> data])],
          res |-> Ok(Unit)]
    ELSE [h |-> h, res |-> Err(<<"Other", "log refused">>)]

\* -------------------------------------------------------------- LogsBuilder

LogsBuilder_new(address) == [address |-> address]

log0(self, data) ==
    [address |-> self.address, topics |-> <<>>, data |-> data]

log1(self, topic0, data) ==
    [address |-> self.address, topics |-> <<topic0>>, data |-> data]

\* Variant of log2: the two topics change places.
log2_swapped(self, topic0, topic1, data) ==
    [address |-> self.address, topics |-> <<topic1, topic0>>, data |-> data]

log2(self, topic0, topic1, data) ==
    [address |-> self.address, topics |-> <<topic0, topic1>>, data |-> data]

log3(self, topic0, topic1, topic2, data) ==
    [address |-> self.address, topics |-> <<topic0, topic1, topic2>>, data |-> data]

log4(self, topic0, topic1, topic2, topic3, data) ==
    [address |-> self.address, topics |-> <<topic0, topic1, topic2, topic3>>,
     data |-> data]

\* ------------------------------------------------------------------- LogExt

\* Variant of record: charges the cost of the log before handing it over.
record_charging(h, log, accepted) ==
    LET cost == log_costs(U64(Len(log.topics)), U64(Len(log.data)))
        c == IF cost.ok THEN record_cost(h, cost.val) ELSE [h |-> h, res |-> Err("OutOfGas")]
    IN  IF ~c.res.ok THEN [h |-> c.h, res |-> Err(ErrorOf(c.res.err))]
        ELSE LET r == handle_log(c.h, log.address, log.topics, log.data, accepted)
             IN  IF ~r.res.ok THEN [h |-> r.h, res |-> Err(ErrorOf(r.res.err))]
                 ELSE [h |-> r.h, res |-> Ok(Unit)]

\* LogExt::record: hands the log to the handle; `?` turns the handle's
\* ExitError into PrecompileFailure::Error.
record(h, log, accepted) ==
    LET r == handle_log(h, log.address, log.topics, log.data, accepted)
    IN  IF ~r.res.ok THEN [h |-> r.h, res |-> Err(ErrorOf(r.res.err))]
        ELSE [h |-> r.h, res |-> Ok(Unit)]

compute_cost(log) == log_costs(U64(Len(log.topics)), U64(Len(log.data)))

\* ------------------------------------------------------------ RuntimeHelper

\* GasWeightMapping::weight_to_gas of the runtime.
weight_to_gas(weight) == U64(weight \div WeightPerGas)

get_dispatch_info(call) == [weight |-> call.weight]

\* Dispatchable::dispatch: the native call runs once and returns what the
\* runtime decides (`call.outcome`): Ok(PostDispatchInfo) or Err(e).
dispatch(h, call) ==
    [h |-> [h EXCEPT !.dispatched = @ + 1], res |-> call.outcome]

\* {:?} of a DispatchErrorWithPostInfo: its text.
DebugFmt(e) ==
    <<"DispatchErrorWithPostInfo",
      CASE e.error = 1 -> "BadOrigin"
        [] e.error = 2 -> "CannotLookup"
        [] OTHER -> "Other">>

\* Variant of format_dispatch_error: the message without the failure.
format_dispatch_error_bare(e) == <<"Dispatched call failed with error: ", <<>>>>

format_dispatch_error(e) == <<"Dispatched call failed with error: ", DebugFmt(e)>>

\* Variant of try_dispatch: dispatches first and compares the gas afterwards.
try_dispatch_late_check(h, call) ==
    LET dispatch_info == get_dispatch_info(call)
        required_gas == weight_to_gas(dispatch_info.weight)
        d == dispatch(h, call)
    IN  IF GtLimbs(required_gas, h.remaining_gas)
        THEN [h |-> d.h, res |-> Err(OutOfGas)]
        ELSE IF ~d.res.ok
        THEN [h |-> d.h, res |-> Err(revert(format_dispatch_error(d.res.err)))]
        ELSE LET used_weight == d.res.val.actual_weight
                 used_gas == weight_to_gas(IF used_weight.some
                                           THEN used_weight.val
                                           ELSE dispatch_info.weight)
                 c == record_cost(d.h, used_gas)
             IN  IF ~c.res.ok
                 THEN [h |-> c.h, res |-> Err(ErrorOf(c.res.err))]
                 ELSE [h |-> c.h, res |-> Ok(Unit)]

\* Variant of try_dispatch: charges the estimate, whatever the call reports.
try_dispatch_charge_estimate(h, call) ==
    LET dispatch_info == get_dispatch_info(call)
        required_gas == weight_to_gas(dispatch_info.weight)
    IN  IF GtLimbs(required_gas, h.remaining_gas)
        THEN [h |-> h, res |-> Err(OutOfGas)]
        ELSE LET d == dispatch(h, call)
             IN  IF ~d.res.ok
                 THEN [h |-> d.h, res |-> Err(revert(format_dispatch_error(d.res.err)))]
                 ELSE LET c == record_cost(d.h, required_gas)
                      IN  IF ~c.res.ok
                          THEN [h |-> c.h, res |-> Err(ErrorOf(c.res.err))]
                          ELSE [h |-> c.h, res |-> Ok(Unit)]

\* Variant of try_dispatch: a failing native call is charged its estimate.
try_dispatch_charge_on_failure(h, call) ==
    LET dispatch_info == get_dispatch_info(call)
        required_gas == weight_to_gas(dispatch_info.weight)
    IN  IF GtLimbs(required_gas, h.remaining_gas)
        THEN [h |-> h, res |-> Err(OutOfGas)]
        ELSE LET d == dispatch(h, call)
                 used_weight == IF d.res.ok THEN d.res.val.actual_weight ELSE None
                 used_gas == weight_to_gas(IF used_weight.some
                                           THEN used_weight.val
                                           ELSE dispatch_info.weight)
                 c == record_cost(d.h, used_gas)
             IN  IF ~d.res.ok
                 THEN [h |-> c.h, res |-> Err(revert(format_dispatch_error(d.res.err)))]
                 ELSE IF ~c.res.ok
                 THEN [h |-> c.h, res |-> Err(ErrorOf(c.res.err))]
                 ELSE [h |-> c.h, res |-> Ok(Unit)]

try_dispatch(h, call) ==
    LET dispatch_info == get_dispatch_info(call)
        remaining_gas == h.remaining_gas
        required_gas == weight_to_gas(dispatch_info.weight)
    IN  IF GtLimbs(required_gas, remaining_gas)
        THEN [h |-> h, res |-> Err(OutOfGas)]
        ELSE LET d == dispatch(h, call)
             IN  IF ~d.res.ok
                 THEN [h |-> d.h, res |-> Err(revert(format_dispatch_error(d.res.err)))]
                 ELSE LET used_weight == d.res.val.actual_weight
                          used_gas == weight_to_gas(IF used_weight.some
                                                    THEN used_weight.val
                                                    ELSE dispatch_info.weight)
                          c == record_cost(d.h, used_gas)
                      IN  IF ~c.res.ok
                          THEN [h |-> c.h, res |-> Err(ErrorOf(c.res.err))]
                          ELSE [h |-> c.h, res |-> Ok(Unit)]

\* ------------------------------------------------------ PrecompileHandleExt

\* Variant of record_log_costs_manual: an overflowing cost saturates at the
\* largest u64 instead of failing.
record_log_costs_manual_saturating(h, topics, data_len) ==
    LET cost == log_costs(topics, data_len)
        c == record_cost(h, IF cost.ok THEN cost.val ELSE U64Max)
    IN  IF ~c.res.ok
        THEN [h |-> c.h, res |-> Err(ErrorOf(c.res.err))]
        ELSE [h |-> c.h, res |-> Ok(Unit)]

record_log_costs_manual(h, topics, data_len) ==
    LET cost == log_costs(topics, data_len)
    IN  IF ~cost.ok THEN [h |-> h, res |-> Err(cost.err)]
        ELSE LET c == record_cost(h, cost.val)
             IN  IF ~c.res.ok
                 THEN [h |-> c.h, res |-> Err(ErrorOf(c.res.err))]
                 ELSE [h |-> c.h, res |-> Ok(Unit)]

\* Variant of record_log_costs: a failing charge is dropped and the loop goes on.
RECURSIVE record_log_costs_keep_going(_, _)
record_log_costs_keep_going(h, logs) ==
    IF logs = <<>> THEN [h |-> h, res |-> Ok(Unit)]
    ELSE LET log == Head(logs)
             r == record_log_costs_manual(h, U64(Len(log.topics)), U64(Len(log.data)))
         IN  record_log_costs_keep_going(r.h, Tail(logs))

\* Variant of record_log_costs: when a charge fails, the gas taken for the
\* earlier events of the batch is given back.
RECURSIVE charge_each(_, _)
charge_each(h, logs) ==
    IF logs = <<>> THEN [h |-> h, res |-> Ok(Unit)]
    ELSE LET log == Head(logs)
             r == record_log_costs_manual(h, U64(Len(log.topics)), U64(Len(log.data)))
         IN  IF ~r.res.ok THEN r
             ELSE charge_each(r.h, Tail(logs))
record_log_costs_rollback(h, logs) ==
    LET r == charge_each(h, logs)
    IN  IF r.res.ok THEN r
        ELSE [h |-> [r.h EXCEPT !.remaining_gas = h.remaining_gas], res |-> r.res]

RECURSIVE record_log_costs(_, _)
record_log_costs(h, logs) ==
    IF logs = <<>> THEN [h |-> h, res |-> Ok(Unit)]
    ELSE LET log == Head(logs)
             r == record_log_costs_manual(h, U64(Len(log.topics)), U64(Len(log.data)))
         IN  IF ~r.res.ok THEN r
             ELSE record_log_costs(r.h, Tail(logs))

\* Variant of check_function_modifier: the payable rule is tried first.
check_function_modifier_swapped(context, is_static, modifier) ==
    IF modifier # "Payable" /\ context.apparent_value > 0
    THEN Err(revert("function is not payable"))
    ELSE IF is_static /\ modifier # "View"
    THEN Err(revert("can't call non-static function in static context"))
    ELSE Ok(Unit)

check_function_modifier(context, is_static, modifier) ==
    IF is_static /\ modifier # "View"
    THEN Err(revert("can't call non-static function in static context"))
    ELSE IF modifier # "Payable" /\ context.apparent_value > 0
    THEN Err(revert("function is not payable"))
    ELSE Ok(Unit)

handle_check_function_modifier(h, modifier) ==
    [h |-> h, res |-> check_function_modifier(h.context, h.is_static, modifier)]

\* EvmDataReader::read_selector: the first four bytes, looked up among the
\* selectors of the precompile's methods.
Methods == [sel \in {<<1, 2, 3, 4>>, <<5, 6, 7, 8>>} |->
               IF sel = <<1, 2, 3, 4>> THEN "transfer" ELSE "approve"]

EvmDataReader_read_selector(input) ==
    IF Len(input) < 4
    THEN Err(revert("tried to parse selector out of bounds"))
    ELSE LET selector == SubSeq(input, 1, 4)
         IN  IF selector \in DOMAIN Methods
             THEN Ok(Methods[selector])
             ELSE Err(revert("unknown selector"))

\* EvmDataReader::new_skip_selector: a reader whose cursor is past the selector.
EvmDataReader_new_skip_selector(input) ==
    IF Len(input) < 4
    THEN Err(revert("input is too short"))
    ELSE Ok([input |-> input, cursor |-> 4])

read_selector(h) == [h |-> h, res |-> EvmDataReader_read_selector(h.input)]

\* Variant of read_input: the reader starts at the selector instead of after it.
read_input_no_skip(h) ==
    [h |-> h,
     res |-> IF Len(h.input) < 4
             THEN Err(revert("input is too short"))
             ELSE Ok([input |-> h.input, cursor |-> 0])]

read_input(h) == [h |-> h, res |-> EvmDataReader_new_skip_selector(h.input)]

\* ------------------------------------------------------------- environment

\* Gas limits a call may start with.
InitGas == {U64(100), U64(375), U64(1000), U64Max}

\* Calls a precompile may receive: static flag, attached value, input (too
\* short, a known selector, another with arguments, an unknown selector).
Frames ==
    { [is_static |-> FALSE, apparent_value |-> 0, input |-> <<1, 2, 3>>],
      [is_static |-> FALSE, apparent_value |-> 5, input |-> <<1, 2, 3, 4>>],
      [is_static |-> TRUE, apparent_value |-> 0, input |-> <<5, 6, 7, 8, 9>>],
      [is_static |-> TRUE, apparent_value |-> 5, input |-> <<9, 9, 9, 9>>] }

Modifiers == {"View", "NonPayable", "Payable"}

\* Topic counts and data lengths around the 64-bit limit of each step of
\* log_costs.
TopicFits == <<5416, 8039, 49982, 174>>    \* 375 * t + 375 still fits
TopicEdge == <<5417, 8039, 49982, 174>>    \* 375 * t fits, adding G_LOG does not
TopicOver == <<5418, 8039, 49982, 174>>    \* 375 * t does not fit
DataEdge == <<65535, 65535, 65535, 8191>>  \* 8 * d fits, the final sum does not
DataOver == <<0, 0, 0, 8192>>              \* 8 * d does not fit

\* Arguments of record_log_costs_manual.
ManualArgs ==
    { <<U64(0), U64(0)>>, <<U64(4), U64(32)>>, <<TopicFits, U64(0)>>,
      <<TopicEdge, U64(0)>>, <<TopicOver, U64(0)>>,
      <<U64(0), DataEdge>>, <<U64(1), DataOver>> }

Builder(h) == LogsBuilder_new(h.context.address)

\* Logs a precompile builds for its own address.
Logs(h) ==
    { log0(Builder(h), <<>>),
      log1(Builder(h), 11, <<1>>),
      log2(Builder(h), 12, 11, <<1, 2>>) }

BatchLogs(h) == { log0(Builder(h), <<>>), log1(Builder(h), 11, <<1>>) }

Batches(h) ==
    UNION { [1..n -> BatchLogs(h)] : n \in 0..MaxBatch }

\* Native calls: the weight of the call and what dispatching it returns.
Outcomes ==
    { Ok([actual_weight |-> None]),
      Ok([actual_weight |-> Some(100)]),
      Ok([actual_weight |-> Some(180)]),
      Ok([actual_weight |-> Some(400)]),
      Err([error |-> 1]),
      Err([error |-> 2]) }

Calls ==
    [weight : {160}, outcome : Outcomes] \cup
    [weight : {300}, outcome : {Ok([actual_weight |-> None]), Err([error |-> 1])}]

\* ------------------------------------------------------------ state machine

VARIABLES handle, last, ops

vars == <<handle, last, ops>>

NewHandle(gas, frame) ==
    [remaining_gas |-> gas,
     logs |-> <<>>,
     context |-> [address |-> 7, apparent_value |-> frame.apparent_value],
     is_static |-> frame.is_static,
     input |-> frame.input,
     charged |-> <<>>,
     dispatched |-> 0]

Init ==
    /\ \E gas \in InitGas, frame \in Frames : handle = NewHandle(gas, frame)
    /\ last = [op |-> "none", arg |-> <<>>, before |-> <<>>, res |-> Ok(Unit)]
    /\ ops = 0

\* One call of a helper: the handle it leaves, and what it was called with and
\* returned.
Step(op, arg, out) ==
    /\ ops < MaxOps
    /\ handle' = out.h
    /\ last' = [op |-> op, arg |-> arg, before |-> handle, res |-> out.res]
    /\ ops' = ops + 1

RecordLogCostsManual ==
    \E args \in ManualArgs :
        Step("record_log_costs_manual", args,
             record_log_costs_manual(handle, args[1], args[2]))

RecordLogCosts ==
    \E logs \in Batches(handle) :
        Step("record_log_costs", logs, record_log_costs(handle, logs))

Record ==
    \E log \in Logs(handle), accepted \in BOOLEAN :
        Step("record", <<log, accepted>>, record(handle, log, accepted))

TryDispatch ==
    \E call \in Calls :
        Step("try_dispatch", call, try_dispatch(handle, call))

CheckFunctionModifier ==
    \E modifier \in Modifiers :
        Step("check_function_modifier", modifier,
             handle_check_function_modifier(handle, modifier))

ReadSelector == Step("read_selector", <<>>, read_selector(handle))

ReadInput == Step("read_input", <<>>, read_input(handle))

Next ==
    \/ RecordLogCostsManual
    \/ RecordLogCosts
    \/ Record
    \/ TryDispatch
    \/ CheckFunctionModifier
    \/ ReadSelector
    \/ ReadInput

Spec == Init /\ [][Next]_vars

\* ------------------------------------------------- log_costs on its own

\* Topic counts and data lengths given to log_costs: small ones and the ones
\* on both sides of every limit.
CostTopics ==
    { U64(0), U64(1), U64(2), U64(3), U64(4), U64(70000),
      TopicFits, TopicEdge, TopicOver, U64Max }

CostDataLens ==
    { U64(0), U64(1), U64(32), U64(65536), U64(1000000),
      <<65489, 65535, 65535, 8191>>,   \* 8 * d + 375 is exactly 2^64 - 1
      <<65490, 65535, 65535, 8191>>,   \* one more: the final sum overflows
      DataEdge, DataOver, U64Max }

InitCost ==
    /\ handle = NewHandle(U64(0), CHOOSE f \in Frames : ~f.is_static /\ f.apparent_value = 0)
    /\ \E topics \in CostTopics, data_len \in CostDataLens :
          last = [op |-> "input", arg |-> <<topics, data_len>>, before |-> <<>>,
                  res |-> Ok(Unit)]
    /\ ops = 0

LogCosts ==
    /\ last.op = "input"
    /\ last' = [last EXCEPT !.op = "log_costs",
                            !.res = log_costs(last.arg[1], last.arg[2])]
    /\ UNCHANGED <<handle, ops>>

SpecCost == InitCost /\ [][LogCosts]_vars

\* ------------------------------------------------------------- properties

\* What the last call was given and what it left.
Before == last.before
Required == weight_to_gas(last.arg.weight)
Used ==
    weight_to_gas(IF last.arg.outcome.val.actual_weight.some
                  THEN last.arg.outcome.val.actual_weight.val
                  ELSE last.arg.weight)
Dispatches == handle.dispatched - Before.dispatched
NewCharges == SubSeq(handle.charged, Len(Before.charged) + 1, Len(handle.charged))

\* C1: when the gas required by the native call exceeds the remaining gas,
\* try_dispatch fails with OutOfGas, dispatches nothing and leaves the
\* remaining gas as it was; otherwise the pre-check passes and the call is
\* dispatched.
C1_PreCheck ==
    last.op = "try_dispatch" =>
        IF GtLimbs(Required, Before.remaining_gas)
        THEN /\ last.res = Err(OutOfGas)
             /\ Dispatches = 0
             /\ handle.remaining_gas = Before.remaining_gas
        ELSE Dispatches = 1

C1_Witness ==
    /\ last.op = "try_dispatch"
    /\ GtLimbs(Required, Before.remaining_gas)
    /\ last.res = Err(OutOfGas)
    /\ handle.dispatched = 0

\* C2: every try_dispatch that dispatched the native call, whether the call
\* succeeded or failed, committed exactly one charge.
C2_ChargedOnce ==
    (last.op = "try_dispatch" /\ Dispatches = 1) => Len(NewCharges) = 1

C4_Original ==
    (last.op = "try_dispatch" /\ Dispatches = 1 /\ ~last.arg.outcome.ok)
    => /\ ~last.res.ok
       /\ last.res.err.kind = "Error"
       /\ last.res.err.exit_status # "OutOfGas"

\* C4: a failing native call makes try_dispatch fail with the Revert variant,
\* whose output is "Dispatched call failed with error: " followed by the text
\* of the native failure.
C4_NativeFailureReverts ==
    (last.op = "try_dispatch" /\ Dispatches = 1 /\ ~last.arg.outcome.ok)
    => /\ ~last.res.ok
       /\ last.res.err.kind = "Revert"
       /\ last.res.err.exit_status = "Reverted"
       /\ Len(last.res.err.output) = 2
       /\ last.res.err.output[1] = "Dispatched call failed with error: "
       /\ last.res.err.output[2] = DebugFmt(last.arg.outcome.err)

C4_Witness ==
    /\ last.op = "try_dispatch"
    /\ Dispatches = 1
    /\ ~last.arg.outcome.ok
    /\ last.res.err.kind = "Revert"
    /\ last.res.err.output[2][2] = "CannotLookup"

Pad(a, n) == a \o [i \in 1..(n - Len(a)) |-> 0]
Fits64(w) == \A i \in 5..Len(w) : w[i] = 0
ExactAdd(a, b) ==
    LET n == IF Len(a) > Len(b) THEN Len(a) ELSE Len(b)
    IN  AddLimbs(Pad(a, n), Pad(b, n), 0)
RECURSIVE ExactSum(_)
ExactSum(costs) ==
    IF costs = <<>> THEN <<0>> ELSE ExactAdd(Head(costs), ExactSum(Tail(costs)))
\* The same number, whatever the count of leading zero limbs.
SameNumber(a, b) ==
    LET n == IF Len(a) > Len(b) THEN Len(a) ELSE Len(b)
    IN  Pad(a, n) = Pad(b, n)

\* C6: log_costs(topics, data_len) is exactly 375 + 375 * topics + 8 * data_len
\* when no product and no partial sum exceeds 64 bits, and OutOfGas as soon as
\* 375 * topics, 8 * data_len, 375 + 375 * topics or the final sum does.
C6_LogCostsExact ==
    last.op = "log_costs" =>
        LET topic_cost == MulLimbs(375, last.arg[1], 0)
            data_cost == MulLimbs(8, last.arg[2], 0)
            first == ExactAdd(U64(375), topic_cost)
            total == ExactAdd(first, data_cost)
        IN  IF Fits64(topic_cost) /\ Fits64(data_cost) /\ Fits64(first) /\ Fits64(total)
            THEN last.res = Ok(Low4(total))
            ELSE last.res = Err(OutOfGas)

C6_Witness ==
    /\ last.op = "log_costs"
    /\ last.arg = <<U64(0), <<65490, 65535, 65535, 8191>>>>
    /\ last.res = Err(OutOfGas)

\* C7: check_function_modifier applies its rules in order: static and not View
\* reverts with the static-context message, whatever the value; otherwise not
\* Payable with a value reverts with the not-payable message; otherwise it
\* succeeds.  The handle is left as it was.
C7_ModifierRules ==
    last.op = "check_function_modifier" =>
        LET modifier == last.arg
            is_static == Before.is_static
            value == Before.context.apparent_value
        IN  /\ handle = Before
            /\ (is_static /\ modifier # "View")
               => last.res = Err(revert("can't call non-static function in static context"))
            /\ (~(is_static /\ modifier # "View") /\ modifier # "Payable" /\ value > 0)
               => last.res = Err(revert("function is not payable"))
            /\ (~(is_static /\ modifier # "View") /\ ~(modifier # "Payable" /\ value > 0))
               => last.res = Ok(Unit)

C7_Witness ==
    /\ last.op = "check_function_modifier"
    /\ Before.is_static
    /\ last.arg = "NonPayable"
    /\ Before.context.apparent_value > 0
    /\ last.res = Err(revert("can't call non-static function in static context"))

\* C8: no operation raises the remaining gas, and gas is conserved: what an
\* operation takes from the remaining gas is exactly the sum of the charges it
\* committed, the charges committed earlier stay committed, and a failing
\* operation gives nothing back.
C8_GasMonotone ==
    last.op # "none" =>
        /\ ~GtLimbs(handle.remaining_gas, Before.remaining_gas)
        /\ Len(handle.charged) >= Len(Before.charged)
        /\ SubSeq(handle.charged, 1, Len(Before.charged)) = Before.charged
        /\ SameNumber(Before.remaining_gas,
                      ExactAdd(handle.remaining_gas, ExactSum(NewCharges)))
        /\ last.op \in {"record", "check_function_modifier", "read_selector", "read_input"}
           => handle.remaining_gas = Before.remaining_gas

C8_Witness ==
    /\ ops = MaxOps
    /\ ~last.res.ok
    /\ Before.charged # <<>>
    /\ GtLimbs(Before.remaining_gas, handle.remaining_gas)
    /\ Len(handle.charged) > Len(Before.charged)

\* C9: record_log_costs_manual is atomic: when log_costs overflows or the cost
\* exceeds the remaining gas it fails with OutOfGas and the remaining gas is
\* unchanged; otherwise it succeeds and the remaining gas drops by exactly
\* log_costs(topics, data_len).
C9_ManualChargeAtomic ==
    last.op = "record_log_costs_manual" =>
        LET cost == log_costs(last.arg[1], last.arg[2])
        IN  IF ~cost.ok \/ GtLimbs(cost.val, Before.remaining_gas)
            THEN /\ last.res = Err(OutOfGas)
                 /\ handle.remaining_gas = Before.remaining_gas
                 /\ NewCharges = <<>>
            ELSE /\ last.res = Ok(Unit)
                 /\ SameNumber(Before.remaining_gas,
                               ExactAdd(handle.remaining_gas, cost.val))
                 /\ NewCharges = <<cost.val>>

C9_Witness ==
    /\ last.op = "record_log_costs_manual"
    /\ log_costs(last.arg[1], last.arg[2]).ok
    /\ GtLimbs(log_costs(last.arg[1], last.arg[2]).val, Before.remaining_gas)
    /\ last.res = Err(OutOfGas)
    /\ handle.remaining_gas = Before.remaining_gas
    /\ Before.charged # <<>>

\* C10: record_log_costs charges the events in the order given and stops at the
\* first charge that fails: it then returns OutOfGas with the costs of the
\* events before it committed and nothing charged for the events after it;
\* if no charge fails it returns Ok with every cost committed.
BatchCosts == [i \in DOMAIN last.arg |-> compute_cost(last.arg[i]).val]
BatchFails(k) ==
    GtLimbs(Pad(ExactSum(SubSeq(BatchCosts, 1, k)), 8), Pad(Before.remaining_gas, 8))
C10_BatchFailFast ==
    last.op = "record_log_costs" =>
        LET failing == {k \in DOMAIN last.arg : BatchFails(k)}
            charged_upto == IF failing = {}
                            THEN Len(last.arg)
                            ELSE (CHOOSE k \in failing : \A j \in failing : k <= j) - 1
        IN  /\ last.res = (IF failing = {} THEN Ok(Unit) ELSE Err(OutOfGas))
            /\ NewCharges = SubSeq(BatchCosts, 1, charged_upto)
            /\ SameNumber(Before.remaining_gas,
                          ExactAdd(handle.remaining_gas,
                                   ExactSum(SubSeq(BatchCosts, 1, charged_upto))))

C10_Witness ==
    /\ last.op = "record_log_costs"
    /\ last.res = Err(OutOfGas)
    /\ Len(NewCharges) >= 1
    /\ Len(NewCharges) < Len(last.arg)
    /\ GtLimbs(Before.remaining_gas, handle.remaining_gas)

\* ------------------------------------------- the log constructors on their own

\* Addresses, topics and data given to the constructors.
BuilderAddresses == {7, 8}
TopicValues == {11, 12}
DataValues == {<<>>, <<1>>, <<2, 1>>}

InitLogs ==
    /\ handle = NewHandle(U64(0), CHOOSE f \in Frames : ~f.is_static /\ f.apparent_value = 0)
    /\ \E address \in BuilderAddresses, topics \in [1..4 -> TopicValues],
          data \in DataValues :
          last = [op |-> "input",
                  arg |-> [address |-> address, topics |-> topics, data |-> data],
                  before |-> <<>>, res |-> Ok(Unit)]
    /\ ops = 0

\* One constructor applied to the arguments drawn.
Construct(op, log) ==
    /\ last.op = "input"
    /\ last' = [last EXCEPT !.op = op, !.res = log]
    /\ UNCHANGED <<handle, ops>>

Log0 ==
    Construct("log0", log0(LogsBuilder_new(last.arg.address), last.arg.data))

Log1 ==
    Construct("log1", log1(LogsBuilder_new(last.arg.address), last.arg.topics[1],
                           last.arg.data))

Log2 ==
    Construct("log2", log2(LogsBuilder_new(last.arg.address), last.arg.topics[1],
                           last.arg.topics[2], last.arg.data))

Log3 ==
    Construct("log3", log3(LogsBuilder_new(last.arg.address), last.arg.topics[1],
                           last.arg.topics[2], last.arg.topics[3], last.arg.data))

Log4 ==
    Construct("log4", log4(LogsBuilder_new(last.arg.address), last.arg.topics[1],
                           last.arg.topics[2], last.arg.topics[3], last.arg.topics[4],
                           last.arg.data))

NextLogs ==
    \/ Log0
    \/ Log1
    \/ Log2
    \/ Log3
    \/ Log4

SpecLogs == InitLogs /\ [][NextLogs]_vars

\* Number of topics the constructor named `op` takes.
TopicsOf(op) ==
    CASE op = "log0" -> 0
      [] op = "log1" -> 1
      [] op = "log2" -> 2
      [] op = "log3" -> 3
      [] op = "log4" -> 4

\* C11: logN of a builder yields an event with the builder's address, exactly
\* the N topics supplied, in the order supplied, and the data supplied; so a
\* constructed event never has more than 4 topics.
C11_LogConstructors ==
    last.op \in {"log0", "log1", "log2", "log3", "log4"} =>
        /\ last.res.address = last.arg.address
        /\ last.res.topics = SubSeq(last.arg.topics, 1, TopicsOf(last.op))
        /\ last.res.data = last.arg.data
        /\ Len(last.res.topics) <= 4

C11_Witness ==
    /\ last.op = "log2"
    /\ last.arg.topics[1] # last.arg.topics[2]
    /\ last.arg.address = 8
    /\ last.res = [address |-> 8,
                   topics |-> <<last.arg.topics[1], last.arg.topics[2]>>,
                   data |-> <<2, 1>>]

C13_NeverAboveEstimate ==
    (last.op = "try_dispatch" /\ Dispatches = 1 /\ last.arg.outcome.ok)
    => /\ \A i \in DOMAIN NewCharges : ~GtLimbs(NewCharges[i], Required)
       /\ IF GtLimbs(Used, Required)
          THEN last.res = Err(OutOfGas) /\ NewCharges = <<>>
          ELSE last.res = Ok(Unit)

====
